---- MODULE Spec2Model ----
(***************************************************************************)
(* Model of experimenter.py: the type-to-schema mapping (type mapper,      *)
(* column deriver, statement builder), the table lifecycle manager and the *)
(* call recorder, against a storage model of the sqlite3 cursor.           *)
(***************************************************************************)
EXTENDS Integers, Sequences, FiniteSets, TLC

VARIABLES
    declared,      \* type mapper: the declared type as the annotation writes it
    python_type,   \* type mapper: the type object handed to the mapper
    sqlite_type,   \* type mapper: the outcome of python_type_to_sqlite_type
    function,      \* statement builder: the callable signature under derivation
    built,         \* statement builder: the derived statements
    tables,        \* storage: table name -> [cols, rows]   (sqlite_master + data)
    last,          \* call recorder: the record of the latest operation
    history        \* call recorder: table name -> values of the successful calls

vars == <<declared, python_type, sqlite_type, function, built, tables, last, history>>

(***************************************************************************)
(* Bounds                                                                  *)
(***************************************************************************)
MaxArms   == 3    \* arms written in one typing.Union[...] subscript
MaxParams == 2    \* parameters of a callable under derivation
MaxFields == 2    \* fields of a structured return type under derivation
MaxRows   == 2    \* rows recorded in the storage

(***************************************************************************)
(* Declared types: the objects the typing module hands to the code.        *)
(* A type object is [origin, name, args]; origin is "Union" for            *)
(* typing.Union[...] and "None" when the object has no __origin__.         *)
(***************************************************************************)
Atom(n) == [origin |-> "None", name |-> n, args |-> <<>>]

int      == Atom("int")
float    == Atom("float")
str      == Atom("str")
bytes    == Atom("bytes")
NoneType == Atom("NoneType")
list     == Atom("list")

Primitives == {int, float, str, bytes}
Atoms      == Primitives \cup {NoneType, list}

\* Python's None as a return value (not the type NoneType).
PyNone == [origin |-> "", name |-> "None", args |-> <<>>]

RECURSIVE Flatten(_)
Flatten(params) ==
    IF params = <<>> THEN <<>>
    ELSE LET p == Head(params)
         IN  (IF p.origin = "Union" THEN p.args ELSE <<p>>) \o Flatten(Tail(params))

RECURSIVE Dedupe(_)
Dedupe(params) ==
    IF params = <<>> THEN <<>>
    ELSE LET init == Dedupe(SubSeq(params, 1, Len(params) - 1))
             x    == params[Len(params)]
         IN  IF \E i \in 1..Len(init) : init[i] = x THEN init ELSE Append(init, x)

\* typing.Union[params]: nested unions are flattened, duplicates dropped,
\* and a union of one type is that type.
Union(params) ==
    LET a == Dedupe(Flatten(params))
    IN  IF Len(a) = 1 THEN a[1]
        ELSE [origin |-> "Union", name |-> "Union", args |-> a]

\* typing.Optional[t] is typing.Union[t, None].
Optional(t) == Union(<<t, NoneType>>)

\* An annotation as written, before typing evaluates the subscripts.
Written(params) == [origin |-> "Union", name |-> "Union", args |-> params]

WrittenOptional(t) == Written(<<t, NoneType>>)

RECURSIVE Leaves(_)
Leaves(t) ==
    IF t.origin # "Union" THEN 1
    ELSE Leaves(t.args[1]) + Leaves(t.args[2])

\* Body applied to what value evaluates to (a local name bound once).
With(value, Body(_)) == CHOOSE out \in {Body(v) : v \in {value}} : TRUE

(***************************************************************************)
(* Type mapper                                                             *)
(***************************************************************************)
unwrap_union(t) ==
    IF t.origin # "Union"
    THEN [is_none |-> TRUE,  list |-> <<>>]
    ELSE [is_none |-> FALSE, list |-> t.args]

unwrap_optional(t) ==
    LET union_args == unwrap_union(t)
    IN  IF union_args.is_none \/ Len(union_args.list) # 2 THEN PyNone
        ELSE LET type1 == union_args.list[1]
                 type2 == union_args.list[2]
             IN  IF type1 = NoneType THEN type2
                 ELSE IF type2 = NoneType THEN type1
                 ELSE PyNone

\* Outcome of the mapper: a (sql_type, mods) pair, or the exception raised.
Mapped(sql_type, mods) == [ok |-> TRUE,  sql_type |-> sql_type, mods |-> mods, exc |-> ""]
MapRaises(exc)         == [ok |-> FALSE, sql_type |-> "",       mods |-> "",   exc |-> exc]

primitive_to_sqlite_type(t) ==
    IF t = int THEN Mapped("INTEGER", "NOT NULL")
    ELSE IF t = float THEN Mapped("REAL", "NOT NULL")
    ELSE IF t = str THEN Mapped("TEXT", "NOT NULL")
    ELSE IF t = bytes THEN Mapped("BLOB", "NOT NULL")
    ELSE MapRaises("AssertionError")

\* A mapper that keeps the inner type's modifier under an optional.
RECURSIVE python_type_to_sqlite_type_keepmods(_)
python_type_to_sqlite_type_keepmods(t) ==
    With(unwrap_optional(t), LAMBDA optional_type :
        IF optional_type # PyNone
        THEN python_type_to_sqlite_type_keepmods(optional_type)
        ELSE primitive_to_sqlite_type(t))

\* A mapper that treats every union as optional of its first arm.
RECURSIVE python_type_to_sqlite_type_anyunion(_)
python_type_to_sqlite_type_anyunion(t) ==
    IF t.origin = "Union"
    THEN With(python_type_to_sqlite_type_anyunion(
                  IF t.args[1] = NoneType THEN t.args[2] ELSE t.args[1]),
              LAMBDA inner : IF inner.ok THEN Mapped(inner.sql_type, "") ELSE inner)
    ELSE primitive_to_sqlite_type(t)

RECURSIVE python_type_to_sqlite_type(_)
python_type_to_sqlite_type(t) ==
    With(unwrap_optional(t), LAMBDA optional_type :
        IF optional_type # PyNone
        THEN With(python_type_to_sqlite_type(optional_type), LAMBDA inner :
                 IF inner.ok THEN Mapped(inner.sql_type, "") ELSE inner)
        ELSE primitive_to_sqlite_type(t))

(***************************************************************************)
(* Column deriver                                                          *)
(* A callable is [name, parameters, return_annotation]: parameters is the  *)
(* sequence of inspect.Parameter [name, kind, annotation], and             *)
(* return_annotation the sequence of dataclass fields [name, type].        *)
(***************************************************************************)
ColumnSpec(name, type, mods) == [name |-> name, type |-> type, mods |-> mods]

\* Outcome of a derivation: the value, or the exception raised.
Ok(val)     == [ok |-> TRUE,  exc |-> "",  val |-> val]
Raises(exc) == [ok |-> FALSE, exc |-> exc, val |-> <<>>]

\* A list comprehension over outcomes: the first exception raised wins.
Collect(outcomes) ==
    IF \A i \in DOMAIN outcomes : outcomes[i].ok
    THEN Ok([i \in DOMAIN outcomes |-> outcomes[i].val])
    ELSE LET first == CHOOSE i \in DOMAIN outcomes :
                          /\ ~outcomes[i].ok
                          /\ \A j \in 1..(i - 1) : outcomes[j].ok
         IN  Raises(outcomes[first].exc)

dc_field_to_columnspec(field) ==
    With(python_type_to_sqlite_type(field.type), LAMBDA m :
        IF m.ok THEN Ok(ColumnSpec(field.name, m.sql_type, m.mods)) ELSE Raises(m.exc))

dataclass_to_field_specs(x) ==
    Collect([i \in DOMAIN x |-> dc_field_to_columnspec(x[i])])

parameter_to_columnspec(parameter) ==
    With(python_type_to_sqlite_type(parameter.annotation), LAMBDA m :
        IF m.ok THEN Ok(ColumnSpec(parameter.name, m.sql_type, m.mods)) ELSE Raises(m.exc))

function_args_to_columns(func) ==
    With(func.parameters, LAMBDA args :
        Collect([i \in DOMAIN args |-> parameter_to_columnspec(args[i])]))

\* The pair (arg_columns, ret_columns).
function_to_columns(func) ==
    With(function_args_to_columns(func), LAMBDA arg_columns :
        IF ~arg_columns.ok THEN Raises(arg_columns.exc)
        ELSE With(dataclass_to_field_specs(func.return_annotation), LAMBDA ret_columns :
                 IF ~ret_columns.ok THEN Raises(ret_columns.exc)
                 ELSE Ok(<<arg_columns.val, ret_columns.val>>)))

(***************************************************************************)
(* Statement builder.  A statement text is the sequence of its pieces.     *)
(***************************************************************************)
RECURSIVE Join(_, _)
Join(sep, pieces) ==
    IF pieces = <<>> THEN <<>>
    ELSE IF Len(pieces) = 1 THEN pieces[1]
    ELSE pieces[1] \o <<sep>> \o Join(sep, Tail(pieces))

Names(cols) == [i \in DOMAIN cols |-> cols[i].name]

to_create_table_sql_line(col) ==
    LET mods == IF col.mods # "" THEN <<" ", col.mods>> ELSE <<>>
    IN  <<"    ", col.name, " ", col.type>> \o mods

function_to_create_table_sql(table_name, func) ==
    With(function_to_columns(func), LAMBDA columns :
        IF ~columns.ok THEN Raises(columns.exc)
        ELSE With(columns.val[1] \o columns.val[2], LAMBDA cols :
                 LET cols_sql_lines == [i \in DOMAIN cols |-> to_create_table_sql_line(cols[i])]
                     cols_sql       == Join(",\n", cols_sql_lines)
                 IN  Ok(<<"CREATE TABLE ", table_name, "(\n">> \o cols_sql \o <<"\n)">>)))

InsertSQLInfo(sql_text, arguments, return_fields) ==
    [sql_text |-> sql_text, arguments |-> arguments, return_fields |-> return_fields]

\* The INSERT text for the listed columns: one placeholder for each.
InsertText(table_name, cols) ==
    LET col_names_str  == Join(", ", [i \in DOMAIN cols |-> <<cols[i].name>>])
        question_marks == Join(", ", [i \in DOMAIN cols |-> <<"?">>])
    IN  <<"INSERT INTO ", table_name, "(">> \o col_names_str
        \o <<")\nVALUES (">> \o question_marks \o <<")">>

InsertRaises(exc) == [ok |-> FALSE, exc |-> exc, val |-> InsertSQLInfo(<<>>, <<>>, <<>>)]

\* A builder that lists the return columns before the argument columns.
function_to_insert_sql_retfirst(table_name, func) ==
    With(function_to_columns(func), LAMBDA columns :
        IF ~columns.ok THEN InsertRaises(columns.exc)
        ELSE [ok |-> TRUE, exc |-> "",
              val |-> InsertSQLInfo(InsertText(table_name, columns.val[2] \o columns.val[1]),
                                    Names(columns.val[1]), Names(columns.val[2]))])

function_to_insert_sql(table_name, func) ==
    With(function_to_columns(func), LAMBDA columns :
        IF ~columns.ok THEN InsertRaises(columns.exc)
        ELSE [ok |-> TRUE, exc |-> "",
              val |-> InsertSQLInfo(InsertText(table_name, columns.val[1] \o columns.val[2]),
                                    Names(columns.val[1]), Names(columns.val[2]))])

(***************************************************************************)
(* The storage engine's reading of a statement text                        *)
(***************************************************************************)
\* The pieces of text strictly between the first `open` and the next `close`.
Between(text, open, close) ==
    LET o == CHOOSE i \in 1..Len(text) :
                 text[i] = open /\ \A j \in 1..(i - 1) : text[j] # open
        c == CHOOSE i \in (o + 1)..Len(text) :
                 text[i] = close /\ \A j \in (o + 1)..(i - 1) : text[j] # close
    IN  SubSeq(text, o + 1, c - 1)

\* text cut at every separator piece.
RECURSIVE Split(_, _)
Split(sep, text) ==
    IF text = <<>> THEN <<>>
    ELSE IF \A i \in 1..Len(text) : text[i] # sep THEN <<text>>
    ELSE LET k == CHOOSE i \in 1..Len(text) :
                      text[i] = sep /\ \A j \in 1..(i - 1) : text[j] # sep
         IN  <<SubSeq(text, 1, k - 1)>> \o Split(sep, SubSeq(text, k + 1, Len(text)))

\* CREATE TABLE <name>( <column-def>, ... ): the column definitions, in order.
CreateTableName(sql) == sql[2]

CreateTableColumns(sql) ==
    With(Split(",\n", Between(sql, "(\n", "\n)")), LAMBDA defs :
        [i \in DOMAIN defs |->
            [name    |-> defs[i][2],
             type    |-> defs[i][4],
             notnull |-> Len(defs[i]) >= 6 /\ defs[i][6] = "NOT NULL"]])

\* INSERT INTO <name>(<column>, ...) VALUES (?, ...): the column list, in order,
\* and the number of placeholders.
InsertTableName(sql) == sql[2]

InsertColumnNames(sql) ==
    With(Split(", ", Between(sql, "(", ")\nVALUES (")), LAMBDA names :
        [i \in DOMAIN names |-> names[i][1]])

InsertPlaceholders(sql) ==
    Len(Split(", ", Between(sql, ")\nVALUES (", ")")))

(***************************************************************************)
(* Inputs of the type mapper and of the statement builder                  *)
(***************************************************************************)
Arms(t) == IF t.origin = "Union" THEN Len(t.args) ELSE 1

\* typing.Optional[p] as the annotation may be written: either arm first.
OptionalsOf(p) == {Union(<<p, NoneType>>), Union(<<NoneType, p>>)}

NotMapped == [done |-> FALSE, out |-> MapRaises("")]

ParamNames       == {"a", "b", "c"}
ParamKinds       == {"POSITIONAL_OR_KEYWORD", "VAR_POSITIONAL", "KEYWORD_ONLY", "VAR_KEYWORD"}
ParamAnnotations == {int, Optional(str), list}
FieldNames       == {"x", "y", "a"}
FieldTypes       == {int, Optional(str)}
TableNames       == {"test", "TestTable"}
RecordedTables   == {"test"}    \* the table names given to experiment()

Parameters == [name : ParamNames, kind : ParamKinds, annotation : ParamAnnotations]
Fields     == [name : FieldNames, type : FieldTypes]

KindRank(kind) ==
    CASE kind = "POSITIONAL_OR_KEYWORD" -> 1
      [] kind = "VAR_POSITIONAL"        -> 2
      [] kind = "KEYWORD_ONLY"          -> 3
      [] kind = "VAR_KEYWORD"           -> 4

IsVariadic(parameter) == parameter.kind \in {"VAR_POSITIONAL", "VAR_KEYWORD"}

\* What a def statement accepts: distinct names, kinds in order, one * and one ** at most.
IsParameterList(ps) ==
    /\ \A i, j \in DOMAIN ps : i < j =>
          /\ ps[i].name # ps[j].name
          /\ KindRank(ps[i].kind) <= KindRank(ps[j].kind)
          /\ IsVariadic(ps[i]) => ps[i].kind # ps[j].kind

\* What a dataclass accepts: distinct field names.
IsFieldList(fs) == \A i, j \in DOMAIN fs : i < j => fs[i].name # fs[j].name

SeqsUpTo(S, n) == UNION {[1..k -> S] : k \in 0..n}

Callable(name, parameters, return_annotation) ==
    [name |-> name, parameters |-> parameters, return_annotation |-> return_annotation]

NoFunction == Callable("", <<>>, <<>>)

NotBuilt ==
    [done |-> FALSE, table_name |-> "",
     arg_columns |-> Raises(""), create_table_sql |-> Raises(""),
     insert_info |-> [ok |-> FALSE, exc |-> "", val |-> InsertSQLInfo(<<>>, <<>>, <<>>)]]

(***************************************************************************)
(* Storage: the sqlite3 cursor.  tables maps a table name to its catalog   *)
(* entry and its rows; a value is [t, v], str values being decimal texts.  *)
(***************************************************************************)
IntV(n) == [t |-> "int", v |-> n]
StrV(n) == [t |-> "str", v |-> n]
NoneV   == [t |-> "NoneType", v |-> 0]

NoTable  == [exists |-> FALSE, cols |-> <<>>, rows |-> <<>>]
EmptyDb  == [n \in TableNames |-> NoTable]

\* What execute() gives back: the storage afterwards, the rows, the exception.
Executed(db, rows) == [db |-> db, rows |-> rows, exc |-> ""]
Refused(db, exc)   == [db |-> db, rows |-> <<>>, exc |-> exc]

\* SELECT name FROM sqlite_master WHERE type='table' AND name=?
SelectSqliteMaster(db, table_name) ==
    Executed(db, IF db[table_name].exists THEN << <<table_name>> >> ELSE <<>>)

\* CREATE TABLE: refused when the name is taken, when no column is given
\* and when a column name is given twice.
ExecuteCreateTable(db, sql) ==
    With(CreateTableName(sql), LAMBDA name :
    With(CreateTableColumns(sql), LAMBDA cols :
        IF \/ db[name].exists
           \/ cols = <<>>
           \/ \E i, j \in DOMAIN cols : i < j /\ cols[i].name = cols[j].name
        THEN Refused(db, "OperationalError")
        ELSE Executed([db EXCEPT ![name] = [exists |-> TRUE, cols |-> cols, rows |-> <<>>]],
                      <<>>)))

\* INSERT: each parameter goes to the column its position in the column list
\* names; a column the list leaves out is NULL.
ExecuteInsert(db, sql, parameters) ==
    With(InsertTableName(sql), LAMBDA name :
    With(InsertColumnNames(sql), LAMBDA names :
    With(InsertPlaceholders(sql), LAMBDA placeholders :
    With(db[name].cols, LAMBDA cols :
        IF ~db[name].exists THEN Refused(db, "OperationalError")
        ELSE IF \E k \in DOMAIN names : \A i \in DOMAIN cols : cols[i].name # names[k]
        THEN Refused(db, "OperationalError")
        ELSE IF placeholders # Len(names) THEN Refused(db, "OperationalError")
        ELSE IF Len(parameters) # placeholders THEN Refused(db, "ProgrammingError")
        ELSE With([i \in DOMAIN cols |->
                      IF \E k \in DOMAIN names : names[k] = cols[i].name
                      THEN parameters[CHOOSE k \in DOMAIN names : names[k] = cols[i].name]
                      ELSE NoneV],
                  LAMBDA row :
                      IF \E i \in DOMAIN cols : cols[i].notnull /\ row[i] = NoneV
                      THEN Refused(db, "IntegrityError")
                      ELSE Executed([db EXCEPT ![name].rows = Append(@, row)], <<>>))))))

(***************************************************************************)
(* Table lifecycle manager                                                 *)
(***************************************************************************)
Event(step, table_name, db) ==
    [step |-> step, in_catalog |-> db[table_name].exists]

\* Outcome: the storage afterwards, the statements executed, the exception.
Ensured(db, trace, exc) == [db |-> db, trace |-> trace, exc |-> exc]

\* A manager that issues the CREATE without consulting the catalog.
maybe_create_table_unchecked(db, table_name, create_table_sql) ==
    With(ExecuteCreateTable(db, create_table_sql), LAMBDA made :
        Ensured(made.db, <<Event("CREATE TABLE", table_name, db)>>, made.exc))

\* A manager that replaces an existing table by a fresh one.
maybe_create_table_recreate(db, table_name, create_table_sql) ==
    With(ExecuteCreateTable([db EXCEPT ![table_name] = NoTable], create_table_sql),
         LAMBDA made :
             Ensured(made.db, <<Event("CREATE TABLE", table_name, db)>>, made.exc))

maybe_create_table(db, table_name, create_table_sql) ==
    With(SelectSqliteMaster(db, table_name).rows, LAMBDA check_rows :
    With(<<Event("SELECT sqlite_master", table_name, db)>>, LAMBDA select :
        IF ~(check_rows = <<>> \/ check_rows = << <<table_name>> >>)
        THEN Ensured(db, select, "AssertionError")
        ELSE IF check_rows = <<>>
        THEN With(ExecuteCreateTable(db, create_table_sql), LAMBDA made :
                 Ensured(made.db,
                         select \o <<Event("CREATE TABLE", table_name, db)>>,
                         made.exc))
        ELSE Ensured(db, select, "")))

(***************************************************************************)
(* Recorded callables and the calling convention                           *)
(***************************************************************************)
Positional(name, annotation) ==
    [name |-> name, kind |-> "POSITIONAL_OR_KEYWORD", annotation |-> annotation]

\* div_rem(a: int, b: int) -> Return(quot: int, rem: str)
div_rem ==
    Callable("div_rem",
             <<Positional("a", int), Positional("b", int)>>,
             <<[name |-> "quot", type |-> int], [name |-> "rem", type |-> str]>>)

\* note(x: int) -> Noted(y: Optional[int]), which returns its argument.
note ==
    Callable("note",
             <<Positional("x", int)>>,
             <<[name |-> "y", type |-> Optional(int)]>>)

\* tally(b: int, a: int) -> Tallied(rem: str, quot: int): the columns of div_rem
\* in another order.
tally ==
    Callable("tally",
             <<Positional("b", int), Positional("a", int)>>,
             <<[name |-> "rem", type |-> str], [name |-> "quot", type |-> int]>>)

\* listed(xs: list) -> Counted(n: int): an annotation the mapper does not know.
listed ==
    Callable("listed",
             <<Positional("xs", list)>>,
             <<[name |-> "n", type |-> int]>>)

Funcs == {div_rem, tally, note, listed}

ArgValues == {IntV(12), IntV(0), NoneV}
ArgLists  == SeqsUpTo(ArgValues, 2)
Kwargs    == {<<>>, <<[name |-> "b", value |-> IntV(12)]>>}

Has(pairs, name)    == \E i \in DOMAIN pairs : pairs[i].name = name
Lookup(pairs, name) == pairs[CHOOSE i \in DOMAIN pairs : pairs[i].name = name].value

\* inspect.getcallargs, and the binding the call itself performs.
getcallargs(func, args, kwargs) ==
    With(func.parameters, LAMBDA ps :
        IF \/ Len(args) > Len(ps)
           \/ \E k \in DOMAIN kwargs : ~Has(ps, kwargs[k].name)
           \/ \E i \in 1..Len(args) : Has(kwargs, ps[i].name)
           \/ \E i \in (Len(args) + 1)..Len(ps) : ~Has(kwargs, ps[i].name)
        THEN Raises("TypeError")
        ELSE Ok([i \in DOMAIN ps |->
                    [name  |-> ps[i].name,
                     value |-> IF i <= Len(args) THEN args[i]
                               ELSE Lookup(kwargs, ps[i].name)]]))

\* The bodies of the recorded callables.
Body(func, bound) ==
    CASE func.name \in {"div_rem", "tally"} ->
            With(Lookup(bound, "a"), LAMBDA a :
            With(Lookup(bound, "b"), LAMBDA b :
                IF a = NoneV \/ b = NoneV THEN Raises("TypeError")
                ELSE IF b.v = 0 THEN Raises("ZeroDivisionError")
                ELSE Ok(<<[name |-> "quot", value |-> IntV(a.v \div b.v)],
                          [name |-> "rem",  value |-> StrV(a.v % b.v)]>>)))
      [] func.name = "note" ->
            Ok(<<[name |-> "y", value |-> Lookup(bound, "x")]>>)
      [] OTHER ->
            Ok(<<[name |-> "n", value |-> IntV(1)]>>)

\* func(*args, **kwargs)
Call(func, args, kwargs) ==
    With(getcallargs(func, args, kwargs), LAMBDA bound :
        IF bound.ok THEN Body(func, bound.val) ELSE Raises("TypeError"))

(***************************************************************************)
(* Call recorder: one call is the steps of do_experiment in order, each on *)
(* the frame the previous one left; a raised exception skips the rest.     *)
(***************************************************************************)
Frame(db) ==
    [db |-> db, exc |-> "", raised_by |-> "", trace |-> <<>>,
     bound_args |-> <<>>, result |-> <<>>]

Raise(fr, step, exc) == [fr EXCEPT !.exc = exc, !.raised_by = step]

Traced(fr, step, table_name) ==
    [fr EXCEPT !.trace = Append(@, Event(step, table_name, fr.db))]

\* bound_args = inspect.getcallargs(func, *args, **kwargs)
step_bind(func, table_name, args, kwargs, fr) ==
    IF fr.exc # "" THEN fr
    ELSE With(getcallargs(func, args, kwargs), LAMBDA bound :
         With(Traced(fr, "getcallargs", table_name), LAMBDA at :
             IF bound.ok THEN [at EXCEPT !.bound_args = bound.val]
             ELSE Raise(at, "getcallargs", bound.exc)))

\* result = func(*args, **kwargs)
step_call(func, table_name, args, kwargs, fr) ==
    IF fr.exc # "" THEN fr
    ELSE With(Call(func, args, kwargs), LAMBDA result :
         With(Traced(fr, "call", table_name), LAMBDA at :
             IF result.ok THEN [at EXCEPT !.result = result.val]
             ELSE Raise(at, "call", result.exc)))

\* create_table_sql = ...; maybe_create_table(db, table_name, create_table_sql)
step_ensure(func, table_name, args, kwargs, fr) ==
    IF fr.exc # "" THEN fr
    ELSE With(function_to_create_table_sql(table_name, func), LAMBDA create_table_sql :
             IF ~create_table_sql.ok
             THEN Raise(fr, "function_to_create_table_sql", create_table_sql.exc)
             ELSE With(maybe_create_table(fr.db, table_name, create_table_sql.val),
                       LAMBDA ensured :
                  With([fr EXCEPT !.db = ensured.db, !.trace = @ \o ensured.trace],
                       LAMBDA at :
                           IF ensured.exc = "" THEN at
                           ELSE Raise(at, "maybe_create_table", ensured.exc))))

\* The values of the named entries, or the exception the first missing one raises.
ValuesOf(pairs, names, exc) ==
    IF \E i \in DOMAIN names : ~Has(pairs, names[i]) THEN Raises(exc)
    ELSE Ok([i \in DOMAIN names |-> Lookup(pairs, names[i])])

\* insert_info = ...; db.execute(insert_info.sql_text, arg_values+ret_values)
step_insert(func, table_name, args, kwargs, fr) ==
    IF fr.exc # "" THEN fr
    ELSE With(function_to_insert_sql(table_name, func), LAMBDA insert_info :
             IF ~insert_info.ok
             THEN Raise(fr, "function_to_insert_sql", insert_info.exc)
             ELSE With(ValuesOf(fr.bound_args, insert_info.val.arguments, "KeyError"),
                       LAMBDA arg_values :
                  With(ValuesOf(fr.result, insert_info.val.return_fields, "AttributeError"),
                       LAMBDA ret_values :
                      IF ~arg_values.ok THEN Raise(fr, "bound_args", arg_values.exc)
                      ELSE IF ~ret_values.ok THEN Raise(fr, "getattr", ret_values.exc)
                      ELSE With(ExecuteInsert(fr.db, insert_info.val.sql_text,
                                              arg_values.val \o ret_values.val),
                                LAMBDA done :
                           With([Traced(fr, "INSERT", table_name) EXCEPT !.db = done.db],
                                LAMBDA at :
                                    IF done.exc = "" THEN at
                                    ELSE Raise(at, "INSERT", done.exc))))))

\* A recorder that ensures the table before it runs the callable.
do_experiment_ensure_first(func, table_name, db, args, kwargs) ==
    LET bind(fr)   == step_bind(func, table_name, args, kwargs, fr)
        call(fr)   == step_call(func, table_name, args, kwargs, fr)
        ensure(fr) == step_ensure(func, table_name, args, kwargs, fr)
        insert(fr) == step_insert(func, table_name, args, kwargs, fr)
    IN  With(With(With(With(Frame(db), bind), ensure), call), insert)

\* A recorder that runs the callable before it binds the arguments.
do_experiment_call_first(func, table_name, db, args, kwargs) ==
    LET bind(fr)   == step_bind(func, table_name, args, kwargs, fr)
        call(fr)   == step_call(func, table_name, args, kwargs, fr)
        ensure(fr) == step_ensure(func, table_name, args, kwargs, fr)
        insert(fr) == step_insert(func, table_name, args, kwargs, fr)
    IN  With(With(With(With(Frame(db), call), bind), ensure), insert)

\* A recorder that catches what the INSERT raises and returns the result.
do_experiment_swallow(func, table_name, db, args, kwargs) ==
    LET bind(fr)   == step_bind(func, table_name, args, kwargs, fr)
        call(fr)   == step_call(func, table_name, args, kwargs, fr)
        ensure(fr) == step_ensure(func, table_name, args, kwargs, fr)
        insert(fr) == step_insert(func, table_name, args, kwargs, fr)
        caught(fr) == IF fr.raised_by = "INSERT"
                      THEN [fr EXCEPT !.exc = "", !.raised_by = ""]
                      ELSE fr
    IN  With(With(With(With(With(Frame(db), bind), call), ensure), insert), caught)

do_experiment(func, table_name, db, args, kwargs) ==
    LET bind(fr)   == step_bind(func, table_name, args, kwargs, fr)
        call(fr)   == step_call(func, table_name, args, kwargs, fr)
        ensure(fr) == step_ensure(func, table_name, args, kwargs, fr)
        insert(fr) == step_insert(func, table_name, args, kwargs, fr)
    IN  With(With(With(With(Frame(db), bind), call), ensure), insert)

\* experiment(table_name, db)(func)(*args, **kwargs)
experiment(table_name, db, func, args, kwargs) ==
    do_experiment(func, table_name, db, args, kwargs)

(***************************************************************************)
(* The record of the latest operation on the storage handle                *)
(***************************************************************************)
NoOp ==
    [op |-> "none", func |-> "", table_name |-> "", exc |-> "", raised_by |-> "",
     trace |-> <<>>, values |-> <<>>]

NoHistory == [n \in TableNames |-> <<>>]

Steps(trace) == [i \in DOMAIN trace |-> trace[i].step]

Did(trace, step) == \E i \in DOMAIN trace : trace[i].step = step

TotalRows(db) ==
    LET names == CHOOSE q \in [1..Cardinality(TableNames) -> TableNames] :
                     \A n \in TableNames : \E i \in DOMAIN q : q[i] = n
        sum[i \in 0..Len(names)] ==
            IF i = 0 THEN 0 ELSE sum[i - 1] + Len(db[names[i]].rows)
    IN  sum[Len(names)]

(***************************************************************************)
(* Specification of the type mapper: declared types are built the way      *)
(* annotations are written, and each is handed to the mapper.              *)
(***************************************************************************)
InitMap ==
    /\ declared \in Atoms
    /\ python_type = declared
    /\ sqlite_type = NotMapped
    /\ function = NoFunction
    /\ built = NotBuilt
    /\ tables = EmptyDb
    /\ last = NoOp
    /\ history = NoHistory

\* typing.Union[python_type, arm]
UnionWith(arm) ==
    /\ Leaves(declared) < MaxArms
    /\ declared' = Written(<<declared, arm>>)
    /\ python_type' = Union(<<python_type, arm>>)
    /\ sqlite_type' = NotMapped
    /\ UNCHANGED <<function, built, tables, last, history>>

\* typing.Optional[python_type]
WrapOptional ==
    /\ Leaves(declared) < MaxArms
    /\ declared' = WrittenOptional(declared)
    /\ python_type' = Optional(python_type)
    /\ sqlite_type' = NotMapped
    /\ UNCHANGED <<function, built, tables, last, history>>

MapType ==
    /\ ~sqlite_type.done
    /\ sqlite_type' = [done |-> TRUE, out |-> python_type_to_sqlite_type(python_type)]
    /\ UNCHANGED <<declared, python_type, function, built, tables, last, history>>

NextMap ==
    \/ \E arm \in Atoms : UnionWith(arm)
    \/ WrapOptional
    \/ MapType

SpecMap == InitMap /\ [][NextMap]_vars

(***************************************************************************)
(* Specification of the column deriver and the statement builder: every    *)
(* callable signature within the bounds is derived for every table name.   *)
(***************************************************************************)
Signatures ==
    {Callable("stupid", ps, fs) :
        ps \in {q \in SeqsUpTo(Parameters, MaxParams) : IsParameterList(q)},
        fs \in {q \in SeqsUpTo(Fields, MaxFields) : IsFieldList(q)}}

InitBuild ==
    /\ function \in Signatures
    /\ built = NotBuilt
    /\ declared = int
    /\ python_type = int
    /\ sqlite_type = NotMapped
    /\ tables = EmptyDb
    /\ last = NoOp
    /\ history = NoHistory

Build(table_name) ==
    /\ ~built.done
    /\ built' = [done             |-> TRUE,
                 table_name       |-> table_name,
                 arg_columns      |-> function_args_to_columns(function),
                 create_table_sql |-> function_to_create_table_sql(table_name, function),
                 insert_info      |-> function_to_insert_sql(table_name, function)]
    /\ UNCHANGED <<declared, python_type, sqlite_type, function, tables, last, history>>

NextBuild == \E table_name \in TableNames : Build(table_name)

SpecBuild == InitBuild /\ [][NextBuild]_vars

(***************************************************************************)
(* Specification of the recorder: recorded callables are called, and the   *)
(* table lifecycle manager is called on its own, on one storage handle.    *)
(***************************************************************************)
Init ==
    /\ tables = EmptyDb
    /\ last = NoOp
    /\ history = NoHistory
    /\ declared = int
    /\ python_type = int
    /\ sqlite_type = NotMapped
    /\ function = NoFunction
    /\ built = NotBuilt

\* The values a call is expected to record: the bound arguments in signature
\* order, then the result's fields in return-type field order.
CallValues(func, args, kwargs) ==
    With(getcallargs(func, args, kwargs).val, LAMBDA bound :
    With(Call(func, args, kwargs).val, LAMBDA result :
        [i \in DOMAIN func.parameters |-> Lookup(bound, func.parameters[i].name)]
        \o [i \in DOMAIN func.return_annotation |->
               Lookup(result, func.return_annotation[i].name)]))

\* A call of the callable that experiment(table_name, db) wraps.
RecordedCall(func, table_name, args, kwargs) ==
    /\ TotalRows(tables) < MaxRows
    /\ \E fr \in {experiment(table_name, tables, func, args, kwargs)} :
       \E values \in {IF fr.exc = "" THEN CallValues(func, args, kwargs) ELSE <<>>} :
           /\ tables' = fr.db
           /\ last' = [op |-> "do_experiment", func |-> func.name,
                       table_name |-> table_name, exc |-> fr.exc,
                       raised_by |-> fr.raised_by, trace |-> fr.trace,
                       values |-> values]
           /\ history' = IF fr.exc = ""
                         THEN [history EXCEPT ![table_name] =
                                  Append(@, [func |-> func.name, values |-> values])]
                         ELSE history
    /\ UNCHANGED <<declared, python_type, sqlite_type, function, built>>

\* A call of maybe_create_table with the CREATE statement derived for func.
EnsureTable(func, table_name) ==
    /\ function_to_create_table_sql(table_name, func).ok
    /\ \E ensured \in {maybe_create_table(tables, table_name,
                              function_to_create_table_sql(table_name, func).val)} :
           /\ tables' = ensured.db
           /\ last' = [op |-> "maybe_create_table", func |-> func.name,
                       table_name |-> table_name, exc |-> ensured.exc,
                       raised_by |-> IF ensured.exc = "" THEN "" ELSE "maybe_create_table",
                       trace |-> ensured.trace, values |-> <<>>]
    /\ UNCHANGED <<history, declared, python_type, sqlite_type, function, built>>

Next ==
    \/ \E func \in Funcs, table_name \in RecordedTables, args \in ArgLists, kwargs \in Kwargs :
           RecordedCall(func, table_name, args, kwargs)
    \/ \E func \in Funcs, table_name \in TableNames :
           EnsureTable(func, table_name)

Spec == Init /\ [][Next]_vars

(***************************************************************************)
(* Properties of the recorder (under Spec)                                 *)
(***************************************************************************)
\* The table has the columns the CREATE statement derived for func declares.
MadeFor(db, table_name, func) ==
    /\ db[table_name].exists
    /\ function_to_create_table_sql(table_name, func).ok
    /\ db[table_name].cols =
           CreateTableColumns(function_to_create_table_sql(table_name, func).val)

TableMadeFor(table_name, func) == MadeFor(tables, table_name, func)

FuncNamed(name) == CHOOSE func \in Funcs : func.name = name

IsPrefix(rows, more) ==
    Len(rows) <= Len(more) /\ \A i \in DOMAIN rows : more[i] = rows[i]

NoRowWritten == \A t \in TableNames : tables'[t].rows = tables[t].rows

OneRowAppended(table_name) ==
    /\ tables'[table_name].exists
    /\ Len(tables'[table_name].rows) = Len(tables[table_name].rows) + 1
    /\ IsPrefix(tables[table_name].rows, tables'[table_name].rows)
    /\ \A t \in TableNames \ {table_name} : tables'[t] = tables[t]

\* C1: when every successful call on a table came from the one callable the
\* table was made for, the table holds one row per call, the i-th row being
\* the i-th call's bound arguments in signature order followed by its
\* result's fields in return-type order.
C1_RowsAreTheCallsInOrder ==
    \A t \in TableNames, func \in Funcs :
        (/\ TableMadeFor(t, func)
         /\ \A i \in DOMAIN history[t] : history[t][i].func = func.name)
        => /\ Len(tables[t].rows) = Len(history[t])
           /\ \A i \in DOMAIN history[t] : tables[t].rows[i] = history[t][i].values

C1_Witness ==
    /\ TableMadeFor("test", div_rem)
    /\ Len(history["test"]) = 2
    /\ \A i \in 1..2 : history["test"][i].func = "div_rem"
    /\ tables["test"].rows[1] = <<IntV(12), IntV(12), IntV(1), StrV(0)>>
    /\ tables["test"].rows[2] = <<IntV(0), IntV(12), IntV(0), StrV(0)>>

\* C2: a call whose callable raises propagates the exception and changes
\* nothing in the storage: no row, no CREATE TABLE, no INSERT.
C2_CalleeFailureStoresNothing ==
    [][(last'.op = "do_experiment" /\ last'.raised_by = "call")
          => /\ last'.exc # ""
             /\ tables' = tables
             /\ Steps(last'.trace) = <<"getcallargs", "call">>]_vars

C2_Witness ==
    /\ last.op = "do_experiment"
    /\ last.raised_by = "call"
    /\ last.exc = "ZeroDivisionError"
    /\ Len(tables[last.table_name].rows) = 1

\* C3: maybe_create_table executes the CREATE statement exactly when the
\* catalog has no table of that name, the table exists afterwards, and a call
\* on an existing table executes no DDL and leaves the storage as it was.
C3_CreatesOnlyWhenAbsent ==
    [][last'.op = "maybe_create_table"
          => /\ Did(last'.trace, "CREATE TABLE") <=> ~tables[last'.table_name].exists
             /\ last'.exc = ""
             /\ tables'[last'.table_name].exists
             /\ tables[last'.table_name].exists => tables' = tables
             /\ ~tables[last'.table_name].exists =>
                   /\ MadeFor(tables', last'.table_name, FuncNamed(last'.func))
                   /\ tables'[last'.table_name].rows = <<>>
             /\ \A t \in TableNames \ {last'.table_name} : tables'[t] = tables[t]]_vars

C3_Witness ==
    /\ last.op = "maybe_create_table"
    /\ Steps(last.trace) = <<"SELECT sqlite_master">>
    /\ last.trace[1].in_catalog
    /\ TableMadeFor(last.table_name, FuncNamed(last.func))
    /\ tables[last.table_name].rows = <<>>

\* C8: a table in the catalog stays there with its columns and its rows so
\* far; an operation on an existing table name executes no CREATE TABLE, and
\* a recorded call whose callable returned goes on to the INSERT whatever
\* the table's columns are.
C8_TablesAreNeverAltered ==
    [][\A t \in TableNames :
          tables[t].exists =>
              /\ tables'[t].exists
              /\ tables'[t].cols = tables[t].cols
              /\ IsPrefix(tables[t].rows, tables'[t].rows)
              /\ last'.table_name = t => ~Did(last'.trace, "CREATE TABLE")
              /\ (/\ last'.table_name = t
                  /\ last'.op = "do_experiment"
                  /\ last'.raised_by \notin {"getcallargs", "call", "function_to_create_table_sql"})
                 => Steps(last'.trace) =
                        <<"getcallargs", "call", "SELECT sqlite_master", "INSERT">>]_vars

C8_Witness ==
    /\ last.op = "do_experiment"
    /\ last.func = "tally"
    /\ last.exc = ""
    /\ TableMadeFor(last.table_name, div_rem)
    /\ Len(tables[last.table_name].rows) = 2
    /\ history[last.table_name][1].func = "div_rem"

\* C9 as stated: a call ends with the callable failing and no row, with the
\* insert failing and no row, or with one row appended; and the storage
\* never changes without the call's row having been appended.
C9_AsStated ==
    [][last'.op = "do_experiment"
          => /\ \/ /\ last'.exc # ""
                   /\ last'.raised_by # "INSERT"
                   /\ NoRowWritten
                \/ /\ last'.exc # ""
                   /\ last'.raised_by = "INSERT"
                   /\ NoRowWritten
                \/ /\ last'.exc = ""
                   /\ OneRowAppended(last'.table_name)
             /\ tables' # tables => OneRowAppended(last'.table_name)]_vars

\* C9 amended: a call either raises and writes no row, or returns and
\* appends exactly one row; the storage changes without a row only when the
\* table was absent, the CREATE TABLE succeeded and the INSERT was refused,
\* which leaves the new table empty.
C9_NoRowUnlessReturned ==
    [][last'.op = "do_experiment"
          => /\ \A t \in TableNames \ {last'.table_name} : tables'[t] = tables[t]
             /\ last'.exc = "" => OneRowAppended(last'.table_name)
             /\ last'.exc # "" => NoRowWritten
             /\ (last'.exc # "" /\ tables' # tables)
                => /\ last'.raised_by = "INSERT"
                   /\ ~tables[last'.table_name].exists
                   /\ tables'[last'.table_name].exists
                   /\ tables'[last'.table_name].rows = <<>>
                   /\ Steps(last'.trace) = <<"getcallargs", "call", "SELECT sqlite_master",
                                             "CREATE TABLE", "INSERT">>]_vars

C9_Witness ==
    /\ last.op = "do_experiment"
    /\ last.raised_by = "INSERT"
    /\ last.exc = "IntegrityError"
    /\ Did(last.trace, "CREATE TABLE")
    /\ tables[last.table_name].exists
    /\ tables[last.table_name].rows = <<>>

\* C10: the steps of a call run in the order bind, call, catalog check (and
\* CREATE TABLE when the table is absent), INSERT; a binding error ends the
\* call before the callable and before any statement, and an INSERT only
\* runs with the table in the catalog.
C10_StepsInOrder ==
    last.op = "do_experiment" =>
        /\ Steps(last.trace) \in
              {<<"getcallargs">>,
               <<"getcallargs", "call">>,
               <<"getcallargs", "call", "SELECT sqlite_master">>,
               <<"getcallargs", "call", "SELECT sqlite_master", "CREATE TABLE">>,
               <<"getcallargs", "call", "SELECT sqlite_master", "INSERT">>,
               <<"getcallargs", "call", "SELECT sqlite_master", "CREATE TABLE", "INSERT">>}
        /\ last.raised_by = "getcallargs" <=> Steps(last.trace) = <<"getcallargs">>
        /\ last.raised_by = "getcallargs" => last.exc = "TypeError"
        /\ \A i \in DOMAIN last.trace :
              /\ last.trace[i].step = "INSERT" => last.trace[i].in_catalog
              /\ last.trace[i].step = "CREATE TABLE" =>
                    (~last.trace[i].in_catalog /\ ~last.trace[i - 1].in_catalog)
        /\ (\E i \in DOMAIN last.trace :
               last.trace[i].step = "SELECT sqlite_master" /\ ~last.trace[i].in_catalog)
           => Did(last.trace, "CREATE TABLE")
        /\ last.exc = "" => Did(last.trace, "INSERT")

C10_Witness ==
    /\ last.op = "do_experiment"
    /\ last.exc = ""
    /\ Steps(last.trace) = <<"getcallargs", "call", "SELECT sqlite_master",
                             "CREATE TABLE", "INSERT">>
    /\ ~last.trace[4].in_catalog
    /\ last.trace[5].in_catalog

(***************************************************************************)
(* Properties of the type mapper (under SpecMap)                           *)
(***************************************************************************)
SqlTypeOf(p) ==
    CASE p = int   -> "INTEGER"
      [] p = float -> "REAL"
      [] p = str   -> "TEXT"
      [] p = bytes -> "BLOB"

IsOptionalOfPrimitive(t) == \E p \in Primitives : t \in OptionalsOf(p)

MapFails == ~sqlite_type.out.ok /\ sqlite_type.out.exc = "AssertionError"

\* C5: each primitive maps to its SQL type with modifier NOT NULL, and
\* optional(T) maps to the SQL type of T with an empty modifier.
C5_PrimitiveAndOptionalMapping ==
    sqlite_type.done =>
        \A p \in Primitives :
            /\ python_type = p =>
                  sqlite_type.out = Mapped(SqlTypeOf(p), "NOT NULL")
            /\ python_type \in OptionalsOf(p) =>
                  /\ sqlite_type.out = Mapped(SqlTypeOf(p), "")
                  /\ sqlite_type.out.sql_type = python_type_to_sqlite_type(p).sql_type

C5_Witness ==
    /\ sqlite_type.done
    /\ python_type = Optional(str)
    /\ sqlite_type.out = Mapped("TEXT", "")

\* C6 as stated: everything but a primitive or one optional around a
\* primitive fails fatally, and so do an optional-of-optional, a two-arm
\* union without a none arm and a union of more than two arms.
C6_AsStated ==
    sqlite_type.done =>
        /\ (python_type \notin Primitives /\ ~IsOptionalOfPrimitive(python_type)) => MapFails
        /\ (\E p \in Primitives : declared = WrittenOptional(WrittenOptional(p))) => MapFails
        /\ (Arms(python_type) = 2 /\ \A i \in 1..2 : python_type.args[i] # NoneType) => MapFails
        /\ Arms(python_type) > 2 => MapFails

\* C6 amended: the mapper fails fatally exactly on the declared types that
\* are neither a primitive nor a two-arm union of a primitive and none; a
\* two-arm union without a none arm and a union of more than two arms fail;
\* an optional-of-optional is the optional itself and maps like it.
C6_FailsOutsidePrimitiveAndOptional ==
    sqlite_type.done =>
        /\ MapFails <=> (python_type \notin Primitives /\ ~IsOptionalOfPrimitive(python_type))
        /\ sqlite_type.out.ok \/ MapFails
        /\ (Arms(python_type) = 2 /\ \A i \in 1..2 : python_type.args[i] # NoneType) => MapFails
        /\ Arms(python_type) > 2 => MapFails
        /\ \A p \in Primitives :
              declared = WrittenOptional(WrittenOptional(p)) =>
                  /\ python_type = Optional(p)
                  /\ sqlite_type.out = Mapped(SqlTypeOf(p), "")

C6_Witness ==
    /\ sqlite_type.done
    /\ declared = WrittenOptional(Written(<<int, str>>))
    /\ python_type = Union(<<int, str, NoneType>>)
    /\ MapFails

(***************************************************************************)
(* Properties of the column deriver and statement builder (under SpecBuild)*)
(***************************************************************************)
ParameterNames == [i \in DOMAIN function.parameters |-> function.parameters[i].name]
ReturnFieldNames ==
    [i \in DOMAIN function.return_annotation |-> function.return_annotation[i].name]

\* C4: the columns of the CREATE TABLE text, the column list of the INSERT
\* text and arguments ++ return_fields are one sequence - the parameters in
\* declaration order, then the return fields in field order - and the
\* INSERT has one placeholder per column.
C4_StatementsAgreeOnOrder ==
    built.done =>
        /\ built.create_table_sql.ok <=> built.insert_info.ok
        /\ built.create_table_sql.ok =>
              LET create == built.create_table_sql.val
                  info   == built.insert_info.val
                  order  == ParameterNames \o ReturnFieldNames
              IN  /\ Names(CreateTableColumns(create)) = order
                  /\ InsertColumnNames(info.sql_text) = order
                  /\ info.arguments \o info.return_fields = order
                  /\ info.arguments = ParameterNames
                  /\ info.return_fields = ReturnFieldNames
                  /\ InsertPlaceholders(info.sql_text) = Len(order)
                  /\ CreateTableName(create) = built.table_name
                  /\ InsertTableName(info.sql_text) = built.table_name

C4_Witness ==
    /\ built.done
    /\ built.create_table_sql.ok
    /\ ParameterNames = <<"b", "a">>
    /\ ReturnFieldNames = <<"y", "x">>
    /\ InsertColumnNames(built.insert_info.val.sql_text) = <<"b", "a", "y", "x">>
    /\ Names(CreateTableColumns(built.create_table_sql.val)) = <<"b", "a", "y", "x">>

\* C7: a callable that declares a variadic positional or a variadic keyword
\* parameter is rejected with ValueError, whatever the annotation.
C7_VariadicRejected ==
    (built.done /\ \E i \in DOMAIN function.parameters : IsVariadic(function.parameters[i]))
        => (~built.arg_columns.ok /\ built.arg_columns.exc = "ValueError")

====
